---- MODULE Spec2Model ----
(***************************************************************************)
(* Checkout orchestration of the shop (OrderController.checkout and the    *)
(* calls it makes), as a state machine.                                    *)
(*                                                                         *)
(* A checkout call is an async function: between two awaits it runs        *)
(* without interruption, at each await any other call may run.  Every      *)
(* action below is one such uninterrupted segment of one call.             *)
(*                                                                         *)
(* Identifiers the stores assign are modelled as the position of the       *)
(* record in its store (1, 2, ...); 0 stands for the null id of an object  *)
(* that was not stored yet.  An absent (undefined / empty) string field is *)
(* the empty string.  A local that is not assigned yet is the empty set,   *)
(* an assigned one is the singleton of its value.                          *)
(***************************************************************************)
EXTENDS Integers, Sequences, FiniteSets, TLC

\* ---------------------------------------------------------------- bounds

\* Largest quantity of a cart line.
MaxQty == 2

\* Largest quantity a product has in the catalogue initially.
MaxStock == 2

Users == {"u1", "u2"}

Products == {"A", "B"}

\* The checkout calls in flight (each an invocation of checkout), named in
\* the order in which they are made.
Calls == {"c1", "c2"}

Earlier(c) == IF c = "c2" THEN {"c1"} ELSE {}

\* ------------------------------------------------------------ option type

None == {}

Some(x) == {x}

The(s) == CHOOSE x \in s : TRUE

\* ------------------------------------------------------------ data model

NoUser == ""

\* Product objects as the product store returns them.
Price(p) == IF p = "A" THEN 10 ELSE 5

Product(p) == [id |-> p, price |-> Price(p)]

\* Account records: id, default address, cart reference.
Account(u) == [id |-> u, address |-> "home", cart |-> u]

Line(p, q) == [product |-> Product(p), quantity |-> q]

Qtys == 1 .. MaxQty

\* Carts the first user can have built: at most one line per product.
CartChoices ==
    {<<>>}
    \cup {<<Line(p, q)>> : p \in Products, q \in Qtys}
    \cup {<<Line("A", q1), Line("B", q2)>> : q1 \in Qtys, q2 \in Qtys}

\* The cart of the second user: one line of the product the first user's
\* cart can hold too.
OtherCart == <<Line("A", 1)>>

\* The cart store before any checkout.
InitialCarts ==
    {[u \in Users |-> IF u = "u1" THEN k ELSE OtherCart] : k \in CartChoices}

\* What a caller can pass as paymentDetails: no type, or a card payment
\* with an amount of the caller's choosing and no gateway.
PaymentInputs ==
    { [type |-> "", amount |-> 0, paymentGateway |-> ""],
      [type |-> "card", amount |-> 99, paymentGateway |-> ""] }

\* What a caller can pass as shipmentDetails: no type, or a delivery with
\* no address.
ShipmentInputs ==
    { [type |-> "", address |-> ""],
      [type |-> "delivery", address |-> ""] }

\* ---------------------------------------------------------------- errors

Error(text, names) == [text |-> text, names |-> names]

NoError == Error("", {})

ErrNotLoggedIn == Error("User not logged in", {})

ErrTypeMissing == Error("Payment and shipment type must be provided", {})

ErrCartEmpty == Error("Cart is empty", {})

ErrProductNotFound(p) == Error("Product not found", {p})

\* The rejection of a store call (any I/O failure of a collaborator).
ErrStore == Error("store call rejected", {})

\* ----------------------------------------------------------------- state

VARIABLES
    loggedInUser,     \* AccountController.loggedInUser
    products,         \* product store: the ids of the products that exist
    carts,            \* cart store: cart id -> lines
    stock,            \* catalogue: product id -> quantity
    shipments,        \* shipment store
    payments,         \* payment store
    orders,           \* order store
    pc,               \* per call: the await it is suspended at
    err,              \* per call: the Error it threw
    paymentDetails,   \* per call: argument
    shipmentDetails,  \* per call: argument
    sessionUser,      \* per call: loggedInUser as read at lines 108, 115
    user,             \* per call: local user
    cart,             \* per call: local cart
    catalogue,        \* per call: local catalogue (the snapshot)
    order,            \* per call: local order (the aggregate being built)
    storedShipment,   \* per call: local storedShipment
    storedPayment,    \* per call: local storedPayment
    orderjson,        \* per call: the record OrderRepository.create returned
    createdOrder,     \* per call: local createdOrder
    pending,          \* per call: the updateProductQuantity calls in flight
    wrote,            \* history: per call, the store writes it has made
    lastWriter        \* history: per product, the call that last wrote stock

stores == <<products, carts, stock, shipments, payments, orders>>

locals == <<paymentDetails, shipmentDetails, sessionUser, user, cart, catalogue,
            order, storedShipment, storedPayment, orderjson, createdOrder>>

checkoutVars == <<loggedInUser, stores, pc, err, locals, pending, wrote, lastWriter>>

\* generateReceipt: the Order object it is given (with the Product, Payment
\* and Shipment objects the order refers to), the account store, the
\* position of the call, what it threw, and the Receipt it returned.
VARIABLES receiptOrder, accounts, receiptPc, receiptErr, receipt

receiptVars == <<receiptOrder, accounts, receiptPc, receiptErr, receipt>>

vars == <<checkoutVars, receiptVars>>

\* ------------------------------------------------- collaborators (pure)

\* Catalogue.getItemQuantity: the snapshot quantity of a product.
getItemQuantity(cat, product) == cat[product.id]

RECURSIVE SumLines(_)
SumLines(items) ==
    IF items = <<>> THEN 0
    ELSE Head(items).product.price * Head(items).quantity + SumLines(Tail(items))

\* Cart.getSubtotalPrice: the sum of price * quantity over the cart lines.
getSubtotalPrice(items) == SumLines(items)

\* The fee of a shipment of the given type.
ShipmentFee(type) == IF type = "delivery" THEN 3 ELSE 0

\* ShipmentController.createShipmentObject: an unsaved shipment.
createShipmentObject(details) ==
    [id |-> 0, type |-> details.type, fee |-> ShipmentFee(details.type),
     address |-> details.address]

\* PaymentController.createPaymentObject: an unsaved payment.
createPaymentObject(details) ==
    [id |-> 0, type |-> details.type, amount |-> details.amount,
     paymentGateway |-> details.paymentGateway]

\* ShipmentController.storeShipment / PaymentController.storePayment: the
\* record as stored, with the id the store gave it.
Stored(store, object) == [object EXCEPT !.id = Len(store) + 1]

\* OrderRepository.create: the record as stored.
OrderRecord(userId, items, paymentId, shipmentId, status, cancellation) ==
    [id |-> Len(orders) + 1, userId |-> userId, items |-> items,
     paymentId |-> paymentId, shipmentId |-> shipmentId,
     status |-> status, cancellation |-> cancellation]

\* ProductController.get: the product, or nothing when it does not exist.
ProductGet(p) == IF p \in products THEN Some(Product(p)) ELSE None

\* PaymentController.getPaymentById / ShipmentController.getShipmentById.
GetById(store, id) == IF id \in DOMAIN store THEN Some(store[id]) ELSE None

\* ------------------------------------------- checkout: synchronous parts

\* Line 123 with <= for <: a line that asks for all that is left fails.
SomeItemNotAvailableOffByOne(items, cat) ==
    \E i \in DOMAIN items : getItemQuantity(cat, items[i].product) <= items[i].quantity

\* Line 123 looking at the first line of the cart only.
SomeItemNotAvailableFirstLine(items, cat) ==
    getItemQuantity(cat, items[1].product) < items[1].quantity

\* Line 123: some cart line asks for more than the snapshot holds.
SomeItemNotAvailable(items, cat) ==
    \E i \in DOMAIN items : getItemQuantity(cat, items[i].product) < items[i].quantity

\* The products of the lines that ask for more than the snapshot holds.
Offending(items, cat) ==
    {items[i].product.id : i \in {j \in DOMAIN items : items[j].quantity > cat[items[j].product.id]}}

NotAvailableText == "One or more products are not available"

\* Line 124 with a message that lists the products that are short.
NotAvailableErrorNaming(items, cat) == Error(NotAvailableText, Offending(items, cat))

\* Line 124: the Error of a failed stock check.  Its message is fixed: it
\* names no product, whatever the cart and the snapshot are.
NotAvailableError(items, cat) == Error(NotAvailableText, {})

\* Lines 127-131: a new Order of the user with every cart line added.
OrderOfCart(userId, items) ==
    [userId |-> userId,
     items |-> [i \in DOMAIN items |->
                   [product |-> items[i].product, quantity |-> items[i].quantity]],
     payment |-> None, shipment |-> None]

\* Lines 133-138: a delivery without address goes to the user's address.
ShipmentDetailsFor(details, usr) ==
    IF details.type = "delivery"
    THEN [details EXCEPT !.address =
              IF details.address # "" THEN details.address ELSE usr.address]
    ELSE details

\* Lines 143-152 with the amount computed only when the caller gave none.
PaymentDetailsKeepingAmount(details, items, shipment) ==
    LET priced == IF details.amount # 0 THEN details
                  ELSE [details EXCEPT !.amount = getSubtotalPrice(items) + shipment.fee]
    IN IF priced.type = "card"
       THEN [priced EXCEPT !.paymentGateway =
                IF priced.paymentGateway # "" THEN priced.paymentGateway ELSE "Tyro"]
       ELSE priced

\* Lines 143-152: the amount is overwritten, a card gets its defaults.
PaymentDetailsFor(details, items, shipment) ==
    LET priced == [details EXCEPT !.amount = getSubtotalPrice(items) + shipment.fee]
    IN IF priced.type = "card"
       THEN [priced EXCEPT !.paymentGateway =
                IF priced.paymentGateway # "" THEN priced.paymentGateway ELSE "Tyro"]
       ELSE priced

\* Lines 56-59 with the lines taken last to first.
OrderItemsReversed(items) ==
    [i \in DOMAIN items |->
        [productId |-> items[Len(items) + 1 - i].product.id,
         quantity |-> items[Len(items) + 1 - i].quantity]]

\* Lines 56-59: the items of the order record.
OrderItems(items) ==
    [i \in DOMAIN items |->
        [productId |-> items[i].product.id, quantity |-> items[i].quantity]]

\* Line 172 taking one unit off, whatever the ordered quantity.
NewQuantityMinusOne(cat, item) == getItemQuantity(cat, item.product) - 1

\* Line 172: the quantity a decrement writes.
NewQuantity(cat, item) == getItemQuantity(cat, item.product) - item.quantity

\* ------------------------------------------------------------------ Init

\* --------------------------------------------- generateReceipt: data

\* An Order object with no line, no payment and no shipment.
NoOrder ==
    [id |-> 1, userId |-> "u1", items |-> <<>>, payment |-> None, shipment |-> None]

\* The prices a product can be given.
PriceChoices == {Price(p) : p \in Products}

\* Payment.status values.
PaymentStatuses == {"Pending", "Paid"}

\* The Payment object of an order.
PaymentObject(status) == [id |-> 1, type |-> "card", status |-> status]

\* The Shipment object of an order.
ShipmentObject == [id |-> 1, type |-> "delivery", fee |-> ShipmentFee("delivery")]

\* The line sequences of an order: at most one line per product.
OrderLineChoices ==
    CartChoices \cup {<<Line("B", q2), Line("A", q1)>> : q1 \in Qtys, q2 \in Qtys}

\* The Order objects generateReceipt can be given.
ReceiptOrders ==
    {[NoOrder EXCEPT !.items = lines, !.payment = pay, !.shipment = ship] :
        lines \in OrderLineChoices,
        pay \in {None, Some(PaymentObject("Pending"))},
        ship \in {None, Some(ShipmentObject)}}

ErrInvalidOrder == Error("Order is not valid", {})

ErrUserNotFound(u) == Error("User not found", {u})

\* Order.verify: the order has a line, a payment and a shipment.
verify(o) == o.items # <<>> /\ o.payment # None /\ o.shipment # None

\* Order.getTotalPrice: the sum of price * quantity over the order's lines,
\* at the prices the products have now.
getTotalPrice(o) == SumLines(o.items)

\* Lines 94-98 with the product's price for the line's price.
ReceiptItemsUnitPrice(o) ==
    [i \in DOMAIN o.items |->
        [product |-> o.items[i].product,
         quantity |-> o.items[i].quantity,
         price |-> o.items[i].product.price]]

\* Lines 94-98: the lines of the receipt, each with its computed price.
ReceiptItems(o) ==
    [i \in DOMAIN o.items |->
        [product |-> o.items[i].product,
         quantity |-> o.items[i].quantity,
         price |-> o.items[i].product.price * o.items[i].quantity]]

\* new Receipt(...): the receipt keeps copies of what it is given.
Receipt(orderId, usr, items, total, payment, shipment) ==
    [orderId |-> orderId, user |-> usr, items |-> items, total |-> total,
     payment |-> payment, shipment |-> shipment]

Init ==
    /\ loggedInUser = NoUser
    /\ products = Products
    /\ carts \in InitialCarts
    /\ stock \in [Products -> 0 .. MaxStock]
    /\ shipments = <<>>
    /\ payments = <<>>
    /\ orders = <<>>
    /\ pc = [c \in Calls |-> "idle"]
    /\ err = [c \in Calls |-> NoError]
    /\ paymentDetails = [c \in Calls |-> None]
    /\ shipmentDetails = [c \in Calls |-> None]
    /\ sessionUser = [c \in Calls |-> NoUser]
    /\ user = [c \in Calls |-> None]
    /\ cart = [c \in Calls |-> None]
    /\ catalogue = [c \in Calls |-> None]
    /\ order = [c \in Calls |-> None]
    /\ storedShipment = [c \in Calls |-> None]
    /\ storedPayment = [c \in Calls |-> None]
    /\ orderjson = [c \in Calls |-> None]
    /\ createdOrder = [c \in Calls |-> None]
    /\ pending = [c \in Calls |-> {}]
    /\ wrote = [c \in Calls |-> {}]
    /\ lastWriter = [p \in Products |-> "initial"]
    /\ receiptOrder = NoOrder
    /\ accounts = [u \in Users |-> Some(Account(u))]
    /\ receiptPc = "idle"
    /\ receiptErr = NoError
    /\ receipt = None

\* ------------------------------------------------------------- helpers

\* The call throws e: the rejection reaches checkout's caller.
Throw(c, e) ==
    /\ pc' = [pc EXCEPT ![c] = "failed"]
    /\ err' = [err EXCEPT ![c] = e]

Goto(c, label) ==
    /\ pc' = [pc EXCEPT ![c] = label]
    /\ UNCHANGED err

Write(store, key) == [store |-> store, key |-> key]

Wrote(c, store, key) == wrote' = [wrote EXCEPT ![c] = @ \cup {Write(store, key)}]

\* --------------------------------------------------------- environment

\* Some call has not started yet.  The session is read only when a call
\* starts, so the environment's steps are followed only until then.
SomeCallIdle == \E c \in Calls : pc[c] = "idle"

\* A user logs in: the session's current user changes.
Login(u) ==
    /\ SomeCallIdle
    /\ loggedInUser # u
    /\ loggedInUser' = u
    /\ UNCHANGED <<stores, pc, err, locals, pending, wrote, lastWriter>>
    /\ UNCHANGED receiptVars

\* The current user logs out.
Logout ==
    /\ SomeCallIdle
    /\ loggedInUser # NoUser
    /\ loggedInUser' = NoUser
    /\ UNCHANGED <<stores, pc, err, locals, pending, wrote, lastWriter>>
    /\ UNCHANGED receiptVars

\* Some call awaits the lookups of a hydration.  The product store is read
\* only by the hydration, and a deletion at any earlier moment shows there
\* exactly as one made while the hydration is awaited, so deletions are
\* followed only then.
SomeCallHydrating == \E c \in Calls : pc[c] = "parseOrderJSON"

\* ProductController.delete: the product leaves the product store.
DeleteProduct(p) ==
    /\ SomeCallHydrating
    /\ p \in products
    /\ products' = products \ {p}
    /\ UNCHANGED <<loggedInUser, carts, stock, shipments, payments, orders,
                   pc, err, locals, pending, wrote, lastWriter>>
    /\ UNCHANGED receiptVars

\* ------------------------------------------------------------- checkout

\* Lines 107-116 with the two checks in the other order: the arguments
\* first, the session second.
CheckoutArgumentsFirst(c, pDetails, sDetails) ==
    /\ pc[c] = "idle"
    /\ \A d \in Earlier(c) : pc[d] # "idle"
    /\ paymentDetails' = [paymentDetails EXCEPT ![c] = Some(pDetails)]
    /\ shipmentDetails' = [shipmentDetails EXCEPT ![c] = Some(sDetails)]
    /\ sessionUser' = [sessionUser EXCEPT ![c] = loggedInUser]
    /\ IF pDetails.type = "" \/ sDetails.type = ""
       THEN /\ Throw(c, ErrTypeMissing)
            /\ UNCHANGED user
       ELSE IF loggedInUser = NoUser
       THEN /\ Throw(c, ErrNotLoggedIn)
            /\ UNCHANGED user
       ELSE /\ user' = [user EXCEPT ![c] = Some(Account(loggedInUser))]
            /\ Goto(c, "getCart")
    /\ UNCHANGED <<loggedInUser, stores, cart, catalogue, order,
                   storedShipment, storedPayment, orderjson, createdOrder,
                   pending, wrote, lastWriter>>
    /\ UNCHANGED receiptVars

\* Lines 107-116: the call starts, checks the session and its arguments,
\* gets the account of the current user (the account store never changes,
\* so the account is the one it holds when the call starts) and asks for
\* the user's cart.
Checkout(c, pDetails, sDetails) ==
    /\ pc[c] = "idle"
    /\ \A d \in Earlier(c) : pc[d] # "idle"
    /\ paymentDetails' = [paymentDetails EXCEPT ![c] = Some(pDetails)]
    /\ shipmentDetails' = [shipmentDetails EXCEPT ![c] = Some(sDetails)]
    /\ sessionUser' = [sessionUser EXCEPT ![c] = loggedInUser]
    /\ IF loggedInUser = NoUser
       THEN /\ Throw(c, ErrNotLoggedIn)
            /\ UNCHANGED user
       ELSE IF pDetails.type = "" \/ sDetails.type = ""
       THEN /\ Throw(c, ErrTypeMissing)
            /\ UNCHANGED user
       ELSE /\ user' = [user EXCEPT ![c] = Some(Account(loggedInUser))]
            /\ Goto(c, "getCart")
    /\ UNCHANGED <<loggedInUser, stores, cart, catalogue, order,
                   storedShipment, storedPayment, orderjson, createdOrder,
                   pending, wrote, lastWriter>>
    /\ UNCHANGED receiptVars

\* Lines 116-121 without the check of lines 117-119.
GetCartUnchecked(c) ==
    /\ pc[c] = "getCart"
    /\ cart' = [cart EXCEPT ![c] = Some(carts[The(user[c]).id])]
    /\ Goto(c, "getCatalogue")
    /\ UNCHANGED <<loggedInUser, stores, paymentDetails, shipmentDetails,
                   sessionUser, user, catalogue, order, storedShipment,
                   storedPayment, orderjson, createdOrder, pending, wrote,
                   lastWriter>>
    /\ UNCHANGED receiptVars

\* Lines 116-121: the cart arrives; an empty cart ends the call, otherwise
\* the catalogue is asked for.
GetCart(c) ==
    /\ pc[c] = "getCart"
    /\ LET items == carts[The(user[c]).id]
       IN /\ cart' = [cart EXCEPT ![c] = Some(items)]
          /\ IF Len(items) = 0
             THEN Throw(c, ErrCartEmpty)
             ELSE Goto(c, "getCatalogue")
    /\ UNCHANGED <<loggedInUser, stores, paymentDetails, shipmentDetails,
                   sessionUser, user, catalogue, order, storedShipment,
                   storedPayment, orderjson, createdOrder, pending, wrote,
                   lastWriter>>
    /\ UNCHANGED receiptVars

\* Lines 121-157 with a failed stock check that drops the lines of the
\* cart before it throws.
GetCatalogueDroppingCart(c) ==
    /\ pc[c] = "getCatalogue"
    /\ catalogue' = [catalogue EXCEPT ![c] = Some(stock)]
    /\ LET usr == The(user[c])
           items == The(cart[c])
       IN IF SomeItemNotAvailable(items, stock)
          THEN /\ Throw(c, NotAvailableError(items, stock))
               /\ carts' = [carts EXCEPT ![usr.cart] = <<>>]
               /\ UNCHANGED <<paymentDetails, shipmentDetails, order>>
          ELSE LET sDetails == ShipmentDetailsFor(The(shipmentDetails[c]), usr)
                   shipment == createShipmentObject(sDetails)
                   pDetails == PaymentDetailsFor(The(paymentDetails[c]), items, shipment)
                   payment == createPaymentObject(pDetails)
               IN /\ shipmentDetails' = [shipmentDetails EXCEPT ![c] = Some(sDetails)]
                  /\ paymentDetails' = [paymentDetails EXCEPT ![c] = Some(pDetails)]
                  /\ order' = [order EXCEPT ![c] =
                                  Some([OrderOfCart(usr.id, items) EXCEPT
                                           !.shipment = Some(shipment),
                                           !.payment = Some(payment)])]
                  /\ carts' = carts
                  /\ Goto(c, "storeShipment")
    /\ UNCHANGED <<loggedInUser, products, stock, shipments, payments, orders,
                   sessionUser, user, cart, storedShipment, storedPayment,
                   orderjson, createdOrder, pending, wrote, lastWriter>>
    /\ UNCHANGED receiptVars

\* Lines 121-157: the catalogue snapshot arrives; the stock check, then the
\* order, the shipment and the payment are built and the shipment is sent
\* to its store.
GetCatalogue(c) ==
    /\ pc[c] = "getCatalogue"
    /\ catalogue' = [catalogue EXCEPT ![c] = Some(stock)]
    /\ LET usr == The(user[c])
           items == The(cart[c])
       IN IF SomeItemNotAvailable(items, stock)
          THEN /\ Throw(c, NotAvailableError(items, stock))
               /\ UNCHANGED <<paymentDetails, shipmentDetails, order>>
          ELSE LET sDetails == ShipmentDetailsFor(The(shipmentDetails[c]), usr)
                   shipment == createShipmentObject(sDetails)
                   pDetails == PaymentDetailsFor(The(paymentDetails[c]), items, shipment)
                   payment == createPaymentObject(pDetails)
               IN /\ shipmentDetails' = [shipmentDetails EXCEPT ![c] = Some(sDetails)]
                  /\ paymentDetails' = [paymentDetails EXCEPT ![c] = Some(pDetails)]
                  /\ order' = [order EXCEPT ![c] =
                                  Some([OrderOfCart(usr.id, items) EXCEPT
                                           !.shipment = Some(shipment),
                                           !.payment = Some(payment)])]
                  /\ Goto(c, "storeShipment")
    /\ UNCHANGED <<loggedInUser, stores, sessionUser, user, cart,
                   storedShipment, storedPayment, orderjson, createdOrder,
                   pending, wrote, lastWriter>>
    /\ UNCHANGED receiptVars

\* Line 157 without its await: the call goes on to store the payment while
\* the shipment store has not answered.
StoreShipmentNotAwaited(c) ==
    /\ pc[c] = "storeShipment"
    /\ Goto(c, "storePayment")
    /\ UNCHANGED <<loggedInUser, stores, locals, pending, wrote, lastWriter>>
    /\ UNCHANGED receiptVars

\* Line 157: the shipment store has stored the shipment.
StoreShipment(c) ==
    /\ pc[c] = "storeShipment"
    /\ LET stored == Stored(shipments, The(The(order[c]).shipment))
       IN /\ shipments' = Append(shipments, stored)
          /\ storedShipment' = [storedShipment EXCEPT ![c] = Some(stored)]
          /\ Wrote(c, "shipment", "-")
    /\ Goto(c, "storePayment")
    /\ UNCHANGED <<loggedInUser, products, carts, stock, payments, orders,
                   paymentDetails, shipmentDetails, sessionUser, user, cart,
                   catalogue, order, storedPayment, orderjson, createdOrder,
                   pending, lastWriter>>
    /\ UNCHANGED receiptVars

\* Line 158: the payment store has stored the payment.
StorePayment(c) ==
    /\ pc[c] = "storePayment"
    /\ LET stored == Stored(payments, The(The(order[c]).payment))
       IN /\ payments' = Append(payments, stored)
          /\ storedPayment' = [storedPayment EXCEPT ![c] = Some(stored)]
          /\ Wrote(c, "payment", "-")
    /\ Goto(c, "createOrder")
    /\ UNCHANGED <<loggedInUser, products, carts, stock, shipments, orders,
                   paymentDetails, shipmentDetails, sessionUser, user, cart,
                   catalogue, order, storedShipment, orderjson, createdOrder,
                   pending, lastWriter>>
    /\ UNCHANGED receiptVars

\* Lines 160-165 with the two stored records passed in the other order: the
\* record gets the shipment's id as paymentId and the payment's as shipmentId.
CreateOrderIdsSwapped(c) ==
    /\ pc[c] = "createOrder"
    /\ LET o == The(order[c])
           record == OrderRecord(o.userId, OrderItems(o.items),
                                 The(storedShipment[c]).id,
                                 The(storedPayment[c]).id, "Pending", FALSE)
       IN /\ orders' = Append(orders, record)
          /\ orderjson' = [orderjson EXCEPT ![c] = Some(record)]
          /\ Wrote(c, "order", "-")
    /\ Goto(c, "parseOrderJSON")
    /\ UNCHANGED <<loggedInUser, products, carts, stock, shipments, payments,
                   paymentDetails, shipmentDetails, sessionUser, user, cart,
                   catalogue, order, storedShipment, storedPayment,
                   createdOrder, pending, lastWriter>>
    /\ UNCHANGED receiptVars

\* Lines 160-165 with the order's own, unsaved payment and shipment passed
\* (order.payment, order.shipment) instead of the stored ones: their ids
\* are null.
CreateOrderOfUnsaved(c) ==
    /\ pc[c] = "createOrder"
    /\ LET o == The(order[c])
           record == OrderRecord(o.userId, OrderItems(o.items),
                                 The(o.payment).id,
                                 The(o.shipment).id, "Pending", FALSE)
       IN /\ orders' = Append(orders, record)
          /\ orderjson' = [orderjson EXCEPT ![c] = Some(record)]
          /\ Wrote(c, "order", "-")
    /\ Goto(c, "parseOrderJSON")
    /\ UNCHANGED <<loggedInUser, products, carts, stock, shipments, payments,
                   paymentDetails, shipmentDetails, sessionUser, user, cart,
                   catalogue, order, storedShipment, storedPayment,
                   createdOrder, pending, lastWriter>>
    /\ UNCHANGED receiptVars

\* Lines 160-165 and 56-61: createOrder; the order store has created the
\* record, which is then hydrated.
CreateOrder(c) ==
    /\ pc[c] = "createOrder"
    /\ LET o == The(order[c])
           record == OrderRecord(o.userId, OrderItems(o.items),
                                 The(storedPayment[c]).id,
                                 The(storedShipment[c]).id, "Pending", FALSE)
       IN /\ orders' = Append(orders, record)
          /\ orderjson' = [orderjson EXCEPT ![c] = Some(record)]
          /\ Wrote(c, "order", "-")
    /\ Goto(c, "parseOrderJSON")
    /\ UNCHANGED <<loggedInUser, products, carts, stock, shipments, payments,
                   paymentDetails, shipmentDetails, sessionUser, user, cart,
                   catalogue, order, storedShipment, storedPayment,
                   createdOrder, pending, lastWriter>>
    /\ UNCHANGED receiptVars

\* Lines 26-48 with a missing product left out of the items instead of
\* thrown for (lines 34-36 as a filter).
ParseOrderJSONSkippingMissing(c) ==
    /\ pc[c] = "parseOrderJSON"
    /\ LET json == The(orderjson[c])
           found == SelectSeq(json.items, LAMBDA item : ProductGet(item.productId) # None)
       IN /\ createdOrder' = [createdOrder EXCEPT ![c] = Some(
                 [userId |-> json.userId, id |-> json.id,
                  items |-> [i \in DOMAIN found |->
                                [product |-> The(ProductGet(found[i].productId)),
                                 quantity |-> found[i].quantity]],
                  payment |-> GetById(payments, json.paymentId),
                  shipment |-> GetById(shipments, json.shipmentId),
                  status |-> json.status,
                  cancellation |-> json.cancellation])]
          /\ pending' = [pending EXCEPT ![c] = DOMAIN The(order[c]).items]
          /\ Goto(c, "updateProductQuantity")
    /\ UNCHANGED <<loggedInUser, stores, paymentDetails, shipmentDetails,
                   sessionUser, user, cart, catalogue, order, storedShipment,
                   storedPayment, orderjson, wrote, lastWriter>>
    /\ UNCHANGED receiptVars

\* Lines 26-48, then 166-175: the lookups of the hydration have answered.
\* A missing product ends the call; otherwise the hydrated order is
\* createdOrder and one updateProductQuantity per line item is issued.
ParseOrderJSON(c) ==
    /\ pc[c] = "parseOrderJSON"
    /\ LET json == The(orderjson[c])
           missing == {i \in DOMAIN json.items : ProductGet(json.items[i].productId) = None}
       IN IF missing # {}
          THEN /\ \E i \in missing : Throw(c, ErrProductNotFound(json.items[i].productId))
               /\ UNCHANGED <<createdOrder, pending>>
          ELSE /\ createdOrder' = [createdOrder EXCEPT ![c] = Some(
                     [userId |-> json.userId, id |-> json.id,
                      items |-> [i \in DOMAIN json.items |->
                                    [product |-> The(ProductGet(json.items[i].productId)),
                                     quantity |-> json.items[i].quantity]],
                      payment |-> GetById(payments, json.paymentId),
                      shipment |-> GetById(shipments, json.shipmentId),
                      status |-> json.status,
                      cancellation |-> json.cancellation])]
               /\ pending' = [pending EXCEPT ![c] = DOMAIN The(order[c]).items]
               /\ Goto(c, "updateProductQuantity")
    /\ UNCHANGED <<loggedInUser, stores, paymentDetails, shipmentDetails,
                   sessionUser, user, cart, catalogue, order, storedShipment,
                   storedPayment, orderjson, wrote, lastWriter>>
    /\ UNCHANGED receiptVars

\* Lines 168-177 with Promise.race for Promise.all: the call goes on as
\* soon as one update has answered.
AfterUpdateOfAny(c, i) ==
    IF pc[c] = "updateProductQuantity"
    THEN Goto(c, "emptyCart")
    ELSE UNCHANGED <<pc, err>>

\* The continuation of the Promise.all of lines 168-175 once the call in
\* flight for line i has answered: when it was the last one, the call goes
\* on to empty the cart (line 177).
AfterUpdate(c, i) ==
    IF pc[c] = "updateProductQuantity" /\ pending[c] = {i}
    THEN Goto(c, "emptyCart")
    ELSE UNCHANGED <<pc, err>>

\* Lines 169-173 as a decrement of the quantity the catalogue holds when the
\* update is applied, instead of the snapshot's.
UpdateProductQuantityOfCurrent(c, i) ==
    /\ i \in pending[c]
    /\ LET item == The(order[c]).items[i]
       IN /\ stock' = [stock EXCEPT ![item.product.id] = NewQuantity(stock, item)]
          /\ Wrote(c, "stock", item.product.id)
          /\ lastWriter' = [lastWriter EXCEPT ![item.product.id] = c]
    /\ pending' = [pending EXCEPT ![c] = @ \ {i}]
    /\ AfterUpdate(c, i)
    /\ UNCHANGED <<loggedInUser, products, carts, shipments, payments, orders,
                   locals>>
    /\ UNCHANGED receiptVars

\* Lines 169-173: the catalogue has applied the update issued for line i.
UpdateProductQuantity(c, i) ==
    /\ i \in pending[c]
    /\ LET item == The(order[c]).items[i]
       IN /\ stock' = [stock EXCEPT ![item.product.id] = NewQuantity(The(catalogue[c]), item)]
          /\ Wrote(c, "stock", item.product.id)
          /\ lastWriter' = [lastWriter EXCEPT ![item.product.id] = c]
    /\ pending' = [pending EXCEPT ![c] = @ \ {i}]
    /\ AfterUpdate(c, i)
    /\ UNCHANGED <<loggedInUser, products, carts, shipments, payments, orders,
                   locals>>
    /\ UNCHANGED receiptVars

\* Lines 168-175: the update issued for line i is rejected.  Promise.all
\* rejects at the first rejection; the other updates stay in flight.
UpdateProductQuantityRejected(c, i) ==
    /\ i \in pending[c]
    /\ pending' = [pending EXCEPT ![c] = @ \ {i}]
    /\ IF pc[c] = "updateProductQuantity"
       THEN Throw(c, ErrStore)
       ELSE UNCHANGED <<pc, err>>
    /\ UNCHANGED <<loggedInUser, stores, locals, wrote, lastWriter>>
    /\ UNCHANGED receiptVars

\* Lines 177-179 without line 177: the call returns, the cart is as it was.
ReturnWithoutEmptyCart(c) ==
    /\ pc[c] = "emptyCart"
    /\ Goto(c, "done")
    /\ UNCHANGED <<loggedInUser, stores, locals, pending, wrote, lastWriter>>
    /\ UNCHANGED receiptVars

\* Lines 177-179: the cart store has emptied the cart; the call returns
\* createdOrder.
EmptyCart(c) ==
    /\ pc[c] = "emptyCart"
    /\ carts' = [carts EXCEPT ![The(user[c]).cart] = <<>>]
    /\ Wrote(c, "cart", "-")
    /\ Goto(c, "done")
    /\ UNCHANGED <<loggedInUser, products, stock, shipments, payments, orders,
                   locals, pending, lastWriter>>
    /\ UNCHANGED receiptVars

\* The awaits of checkout at which a store call is pending.
AwaitsStore ==
    {"getCart", "getCatalogue", "storeShipment", "storePayment",
     "createOrder", "parseOrderJSON", "emptyCart"}

\* A rejection handled by a compensation: the shipment the call has stored
\* is taken out of the shipment store again.
RejectedWithCompensation(c) ==
    /\ pc[c] \in AwaitsStore
    /\ Throw(c, ErrStore)
    /\ shipments' = SelectSeq(shipments, LAMBDA s : s \notin storedShipment[c])
    /\ UNCHANGED <<loggedInUser, products, carts, stock, payments, orders,
                   locals, pending, wrote, lastWriter>>
    /\ UNCHANGED receiptVars

\* The store call the call awaits is rejected: checkout has no try/catch,
\* so the rejection ends the call and nothing else happens.
Rejected(c) ==
    /\ pc[c] \in AwaitsStore
    /\ Throw(c, ErrStore)
    /\ UNCHANGED <<loggedInUser, stores, locals, pending, wrote, lastWriter>>
    /\ UNCHANGED receiptVars

\* ------------------------------------------------------ generateReceipt

\* Lines 83-88 without the check of line 84.
GenerateReceiptUnverified ==
    /\ receiptPc = "idle"
    /\ receiptPc' = "getAccount"
    /\ UNCHANGED <<receiptOrder, accounts, receiptErr, receipt>>
    /\ UNCHANGED checkoutVars

\* Lines 83-88: the call verifies the order and asks for the account.
GenerateReceipt ==
    /\ receiptPc = "idle"
    /\ IF ~verify(receiptOrder)
       THEN receiptPc' = "failed" /\ receiptErr' = ErrInvalidOrder
       ELSE receiptPc' = "getAccount" /\ UNCHANGED receiptErr
    /\ UNCHANGED <<receiptOrder, accounts, receipt>>
    /\ UNCHANGED checkoutVars

\* Lines 88-104 taking the lines out of the order as it copies them.
GenerateReceiptGetAccountConsumingItems ==
    /\ receiptPc = "getAccount"
    /\ IF accounts[receiptOrder.userId] = None
       THEN /\ receiptPc' = "failed"
            /\ receiptErr' = ErrUserNotFound(receiptOrder.userId)
            /\ UNCHANGED <<receipt, receiptOrder>>
       ELSE /\ receipt' = Some(Receipt(receiptOrder.id,
                                       The(accounts[receiptOrder.userId]),
                                       ReceiptItems(receiptOrder),
                                       getTotalPrice(receiptOrder),
                                       receiptOrder.payment,
                                       receiptOrder.shipment))
            /\ receiptOrder' = [receiptOrder EXCEPT !.items = <<>>]
            /\ receiptPc' = "done"
            /\ UNCHANGED receiptErr
    /\ UNCHANGED accounts
    /\ UNCHANGED checkoutVars

\* Lines 88-104: the account arrives; the call throws when there is none,
\* else it builds the receipt from the order as it is now and returns it.
GenerateReceiptGetAccount ==
    /\ receiptPc = "getAccount"
    /\ IF accounts[receiptOrder.userId] = None
       THEN /\ receiptPc' = "failed"
            /\ receiptErr' = ErrUserNotFound(receiptOrder.userId)
            /\ UNCHANGED receipt
       ELSE /\ receipt' = Some(Receipt(receiptOrder.id,
                                       The(accounts[receiptOrder.userId]),
                                       ReceiptItems(receiptOrder),
                                       getTotalPrice(receiptOrder),
                                       receiptOrder.payment,
                                       receiptOrder.shipment))
            /\ receiptPc' = "done"
            /\ UNCHANGED receiptErr
    /\ UNCHANGED <<receiptOrder, accounts>>
    /\ UNCHANGED checkoutVars

\* Line 88: the account lookup is rejected.
GenerateReceiptRejected ==
    /\ receiptPc = "getAccount"
    /\ receiptPc' = "failed"
    /\ receiptErr' = ErrStore
    /\ UNCHANGED <<receiptOrder, accounts, receipt>>
    /\ UNCHANGED checkoutVars

\* --------------------------- what other code does to the order's objects

\* Order.addItem: a line of a product the order has no line of yet.
AddItem(p, q) ==
    /\ \A i \in DOMAIN receiptOrder.items : receiptOrder.items[i].product.id # p
    /\ receiptOrder' = [receiptOrder EXCEPT !.items = Append(@, Line(p, q))]
    /\ UNCHANGED <<accounts, receiptPc, receiptErr, receipt>>
    /\ UNCHANGED checkoutVars

\* Order.setPayment.
SetPayment ==
    /\ receiptOrder.payment = None
    /\ receiptOrder' = [receiptOrder EXCEPT !.payment = Some(PaymentObject("Pending"))]
    /\ UNCHANGED <<accounts, receiptPc, receiptErr, receipt>>
    /\ UNCHANGED checkoutVars

\* Order.setShipment.
SetShipment ==
    /\ receiptOrder.shipment = None
    /\ receiptOrder' = [receiptOrder EXCEPT !.shipment = Some(ShipmentObject)]
    /\ UNCHANGED <<accounts, receiptPc, receiptErr, receipt>>
    /\ UNCHANGED checkoutVars

\* Payment.updateStatus on the order's payment.
UpdateStatus(status) ==
    /\ receiptOrder.payment # None
    /\ The(receiptOrder.payment).status # status
    /\ receiptOrder' = [receiptOrder EXCEPT
                           !.payment = Some([The(@) EXCEPT !.status = status])]
    /\ UNCHANGED <<accounts, receiptPc, receiptErr, receipt>>
    /\ UNCHANGED checkoutVars

\* The price of the product of a line of the order changes.
SetPrice(i, price) ==
    /\ i \in DOMAIN receiptOrder.items
    /\ receiptOrder.items[i].product.price # price
    /\ receiptOrder' = [receiptOrder EXCEPT !.items[i].product.price = price]
    /\ UNCHANGED <<accounts, receiptPc, receiptErr, receipt>>
    /\ UNCHANGED checkoutVars

\* The account of the order's user gets another address.
UpdateAccount(address) ==
    /\ accounts[receiptOrder.userId] # None
    /\ The(accounts[receiptOrder.userId]).address # address
    /\ accounts' = [accounts EXCEPT ![receiptOrder.userId] =
                       Some([The(@) EXCEPT !.address = address])]
    /\ UNCHANGED <<receiptOrder, receiptPc, receiptErr, receipt>>
    /\ UNCHANGED checkoutVars

\* The account of the order's user is deleted.
DeleteAccount ==
    /\ accounts[receiptOrder.userId] # None
    /\ accounts' = [accounts EXCEPT ![receiptOrder.userId] = None]
    /\ UNCHANGED <<receiptOrder, receiptPc, receiptErr, receipt>>
    /\ UNCHANGED checkoutVars

\* ------------------------------------------------------------------ Next

Next ==
    \/ \E u \in Users : Login(u)
    \/ Logout
    \/ \E p \in Products : DeleteProduct(p)
    \/ \E c \in Calls, pDetails \in PaymentInputs, sDetails \in ShipmentInputs :
          Checkout(c, pDetails, sDetails)
    \/ \E c \in Calls : GetCart(c)
    \/ \E c \in Calls : GetCatalogue(c)
    \/ \E c \in Calls : StoreShipment(c)
    \/ \E c \in Calls : StorePayment(c)
    \/ \E c \in Calls : CreateOrder(c)
    \/ \E c \in Calls : ParseOrderJSON(c)
    \/ \E c \in Calls : \E i \in pending[c] : UpdateProductQuantity(c, i)
    \/ \E c \in Calls : \E i \in pending[c] : UpdateProductQuantityRejected(c, i)
    \/ \E c \in Calls : EmptyCart(c)
    \/ \E c \in Calls : Rejected(c)

Spec == Init /\ [][Next]_vars

\* generateReceipt alone: one call, for any order, while other code changes
\* the order, its payment, its products and its user's account; no checkout
\* is made.
InitReceipt ==
    /\ loggedInUser = NoUser
    /\ products = Products
    /\ carts = [u \in Users |-> OtherCart]
    /\ stock = [p \in Products |-> MaxStock]
    /\ shipments = <<>>
    /\ payments = <<>>
    /\ orders = <<>>
    /\ pc = [c \in Calls |-> "idle"]
    /\ err = [c \in Calls |-> NoError]
    /\ paymentDetails = [c \in Calls |-> None]
    /\ shipmentDetails = [c \in Calls |-> None]
    /\ sessionUser = [c \in Calls |-> NoUser]
    /\ user = [c \in Calls |-> None]
    /\ cart = [c \in Calls |-> None]
    /\ catalogue = [c \in Calls |-> None]
    /\ order = [c \in Calls |-> None]
    /\ storedShipment = [c \in Calls |-> None]
    /\ storedPayment = [c \in Calls |-> None]
    /\ orderjson = [c \in Calls |-> None]
    /\ createdOrder = [c \in Calls |-> None]
    /\ pending = [c \in Calls |-> {}]
    /\ wrote = [c \in Calls |-> {}]
    /\ lastWriter = [p \in Products |-> "initial"]
    /\ receiptOrder \in ReceiptOrders
    /\ accounts \in {[u \in Users |-> IF u = NoOrder.userId THEN a ELSE Some(Account(u))] :
                        a \in {None, Some(Account(NoOrder.userId))}}
    /\ receiptPc = "idle"
    /\ receiptErr = NoError
    /\ receipt = None

NextReceipt ==
    \/ GenerateReceipt
    \/ GenerateReceiptGetAccount
    \/ GenerateReceiptRejected
    \/ \E p \in Products, q \in Qtys : AddItem(p, q)
    \/ SetPayment
    \/ SetShipment
    \/ \E status \in PaymentStatuses : UpdateStatus(status)
    \/ \E i \in DOMAIN receiptOrder.items, price \in PriceChoices : SetPrice(i, price)
    \/ \E address \in {"home", "office"} : UpdateAccount(address)
    \/ DeleteAccount

SpecReceipt == InitReceipt /\ [][NextReceipt]_vars

\* ---------------------------------------------------------- properties

Failed(c) == pc[c] = "failed"

Done(c) == pc[c] = "done"

\* The call has read the catalogue, so it has made the stock check.
Checked(c) == catalogue[c] # None

\* The call returns in this step.
Returns(c) == pc[c] # "done" /\ pc'[c] = "done"

\* The call throws in this step.
Throws(c) == pc[c] # "failed" /\ pc'[c] = "failed"

\* The record is in the store, under its id.
Holds(store, record) == record.id \in DOMAIN store /\ store[record.id] = record

\* C1: a checkout that reaches the stock check fails with "not available"
\* if and only if some line of the cart it read asks for more than the
\* catalogue snapshot it read holds of the line's product; and a call that
\* failed so has persisted no shipment, no payment and no order.
C1_InsufficientStockIff ==
    \A c \in Calls : Checked(c) =>
        LET items == The(cart[c])
            cat == The(catalogue[c])
        IN /\ (Failed(c) /\ err[c].text = NotAvailableText)
                <=> (\E i \in DOMAIN items : items[i].quantity > cat[items[i].product.id])
           /\ err[c].text = NotAvailableText =>
                /\ wrote[c] = {}
                /\ storedShipment[c] = None
                /\ storedPayment[c] = None
                /\ orderjson[c] = None

\* A call failed on a two-line cart of which one line is short and the
\* other is not.
C1_Witness ==
    \E c \in Calls :
        /\ Checked(c) /\ Failed(c) /\ err[c].text = NotAvailableText
        /\ Cardinality(Offending(The(cart[c]), The(catalogue[c]))) = 1
        /\ Len(The(cart[c])) = 2

\* C2 as stated: when a checkout returns, the catalogue holds of every
\* ordered product the quantity the checkout found minus the one ordered.
C2_PostQuantityAsStated ==
    [][\A c \in Calls : Returns(c) =>
          \A i \in DOMAIN The(order[c]).items :
              LET item == The(order[c]).items[i]
              IN stock'[item.product.id]
                    = The(catalogue[c])[item.product.id] - item.quantity]_vars

\* C2 amended: when a checkout returns, the catalogue holds of every
\* ordered product whose quantity no other checkout has written since this
\* checkout's own decrement, the snapshot quantity minus the one ordered.
C2_PostQuantity ==
    [][\A c \in Calls : Returns(c) =>
          \A i \in DOMAIN The(order[c]).items :
              LET item == The(order[c]).items[i]
              IN lastWriter'[item.product.id] = c =>
                    stock'[item.product.id]
                       = The(catalogue[c])[item.product.id] - item.quantity]_vars

\* A checkout of two lines has returned and the catalogue holds what it
\* wrote for both.
C2_Witness ==
    \E c \in Calls :
        /\ Done(c)
        /\ Len(The(order[c]).items) = 2
        /\ \A i \in DOMAIN The(order[c]).items :
              LET item == The(order[c]).items[i]
              IN /\ lastWriter[item.product.id] = c
                 /\ item.quantity = MaxQty
                 /\ stock[item.product.id]
                       = The(catalogue[c])[item.product.id] - item.quantity

\* C3: the decrement is no read-modify-write of the catalogue: every update
\* a checkout applies writes the quantity of the snapshot the checkout read
\* before its stock check, minus the ordered quantity, whatever the
\* catalogue holds by then.
C3_DecrementWritesFromSnapshot ==
    [][\A c \in Calls : \A i \in pending[c] :
          LET item == The(order[c]).items[i]
          IN Write("stock", item.product.id) \in wrote'[c] \ wrote[c] =>
                stock'[item.product.id]
                   = The(catalogue[c])[item.product.id] - item.quantity]_vars

\* The quantity of product p in the lines of call c.
Ordered(c, p) ==
    LET items == The(order[c]).items
        at == {i \in DOMAIN items : items[i].product.id = p}
    IN IF at = {} THEN 0 ELSE items[The(at)].quantity

\* Oversell: two checkouts read the same snapshot, both passed the stock
\* check and both returned, and together they ordered more of a product
\* than the snapshot held.
C3_Witness ==
    \E c \in Calls, d \in Calls, p \in Products :
        /\ c # d /\ Done(c) /\ Done(d)
        /\ catalogue[c] = catalogue[d]
        /\ Ordered(c, p) > 0 /\ Ordered(d, p) > 0
        /\ Ordered(c, p) + Ordered(d, p) > The(catalogue[c])[p]
        /\ Len(orders) = 2

\* C4: whenever a call has a payment store request under way or has stored
\* a payment, the shipment store holds the shipment the call stored; and
\* whenever it has an order creation under way or has created the order
\* record, both stores hold what the call stored.
C4_ShipmentThenPaymentThenOrder ==
    \A c \in Calls :
        /\ (pc[c] = "storePayment" \/ storedPayment[c] # None
              \/ Write("payment", "-") \in wrote[c])
             => /\ storedShipment[c] # None
                /\ Holds(shipments, The(storedShipment[c]))
        /\ (pc[c] = "createOrder" \/ orderjson[c] # None
              \/ Write("order", "-") \in wrote[c])
             => /\ storedShipment[c] # None
                /\ Holds(shipments, The(storedShipment[c]))
                /\ storedPayment[c] # None
                /\ Holds(payments, The(storedPayment[c]))

\* A call has created its order record.
C4_Witness ==
    \E c \in Calls :
        /\ Write("order", "-") \in wrote[c]
        /\ Holds(orders, The(orderjson[c]))
        /\ The(orderjson[c]).shipmentId = The(storedShipment[c]).id
        /\ The(orderjson[c]).paymentId = The(storedPayment[c]).id

\* C5: the step in which a call fails writes to no store, and a failed call
\* leaves what it has persisted where it is: the shipment, the payment and
\* the order record it has stored are still in their stores, and it has
\* not cleared the cart.
C5_NoCompensation ==
    [][\A c \in Calls : pc'[c] = "failed" =>
          /\ \A s \in storedShipment'[c] : Holds(shipments', s)
          /\ \A s \in storedPayment'[c] : Holds(payments', s)
          /\ \A o \in orderjson'[c] : Holds(orders', o)
          /\ Write("cart", "-") \notin wrote'[c]
          /\ Throws(c) => UNCHANGED <<carts, stock, shipments, payments, orders>>]_vars

\* A call failed on a rejected stock update after it had created the order
\* record and applied the update of its other line; its cart is not empty.
C5_Witness ==
    \E c \in Calls :
        /\ Failed(c) /\ err[c] = ErrStore
        /\ \A o \in orderjson[c] : Holds(orders, o)
        /\ orderjson[c] # None
        /\ Len(The(order[c]).items) = 2
        /\ Cardinality({w \in wrote[c] : w.store = "stock"}) = 1
        /\ pending[c] = {}
        /\ carts[The(user[c]).cart] # <<>>

\* C6: a call that finds the cart of its user empty fails with "Cart is
\* empty" and has written to no store: it has read no catalogue, stored no
\* shipment, payment or order, and made no stock update and no cart clear.
C6_EmptyCart ==
    \A c \in Calls : (cart[c] # None /\ Len(The(cart[c])) = 0) =>
        /\ Failed(c) /\ err[c] = ErrCartEmpty
        /\ wrote[c] = {}
        /\ catalogue[c] = None /\ order[c] = None
        /\ storedShipment[c] = None /\ storedPayment[c] = None
        /\ orderjson[c] = None /\ pending[c] = {}

\* A call failed on an empty cart while the stores are not empty: the other
\* call has persisted an order.
C6_Witness ==
    \E c \in Calls :
        /\ cart[c] = Some(<<>>) /\ Failed(c) /\ err[c] = ErrCartEmpty
        /\ Len(orders) = 1

\* The preconditions of a started call, from its arguments and what it read.
Unauthenticated(c) == sessionUser[c] = NoUser

InvalidInput(c) ==
    The(paymentDetails[c]).type = "" \/ The(shipmentDetails[c]).type = ""

\* C7: the first violated precondition decides the failure.  A call made
\* with no current user fails with "not logged in" whatever its arguments;
\* one with a current user and a missing type fails with "type must be
\* provided" without reading the cart; "cart empty" is thrown only by a call
\* that passed both and has made no stock check; "not available" only by
\* one that passed both and read a cart that is not empty.
C7_PreconditionOrder ==
    \A c \in Calls : pc[c] # "idle" =>
        /\ Unauthenticated(c) => Failed(c) /\ err[c] = ErrNotLoggedIn
        /\ (~Unauthenticated(c) /\ InvalidInput(c)) => Failed(c) /\ err[c] = ErrTypeMissing
        /\ err[c] = ErrNotLoggedIn => Unauthenticated(c)
        /\ err[c] = ErrTypeMissing => ~Unauthenticated(c) /\ InvalidInput(c)
        /\ err[c] \in {ErrNotLoggedIn, ErrTypeMissing} =>
              user[c] = None /\ cart[c] = None /\ catalogue[c] = None
        /\ err[c] = ErrCartEmpty =>
              /\ ~Unauthenticated(c) /\ ~InvalidInput(c)
              /\ cart[c] = Some(<<>>) /\ catalogue[c] = None
        /\ err[c].text = NotAvailableText =>
              /\ ~Unauthenticated(c) /\ ~InvalidInput(c)
              /\ cart[c] # None /\ Len(The(cart[c])) > 0
              /\ Offending(The(cart[c]), The(catalogue[c])) # {}

\* A call made with no current user and with a missing type has failed
\* with "not logged in".
C7_Witness ==
    \E c \in Calls :
        /\ pc[c] # "idle"
        /\ Unauthenticated(c) /\ InvalidInput(c)
        /\ Failed(c) /\ err[c] = ErrNotLoggedIn

\* C8: when a checkout has returned, the amount of the payment record it
\* stored is the subtotal of the cart it read plus the fee of the shipment
\* it stored.
C8_PaymentAmount ==
    \A c \in Calls : Done(c) =>
        /\ Holds(payments, The(storedPayment[c]))
        /\ payments[The(storedPayment[c]).id].amount
              = getSubtotalPrice(The(cart[c])) + shipments[The(storedShipment[c]).id].fee

\* The checkout of the cart of two A (10 each) and one B (5) by delivery
\* (fee 3) has returned and stored a payment of 28 (every caller of the
\* model that gives a type gives the amount 99).
C8_Witness ==
    \E c \in Calls :
        /\ Done(c)
        /\ The(cart[c]) = <<Line("A", 2), Line("B", 1)>>
        /\ payments[The(storedPayment[c]).id].amount = 28

\* C9: in the step in which a checkout returns, the cart of its user
\* becomes (or stays) empty.
C9_CartEmptyAfterSuccess ==
    [][\A c \in Calls : Returns(c) => carts'[The(user[c]).id] = <<>>]_vars

\* A checkout has returned, the cart it read was not empty and is empty
\* now, and the other user's cart is untouched.
C9_Witness ==
    \E c \in Calls :
        /\ Done(c)
        /\ Len(The(cart[c])) > 0
        /\ carts[The(user[c]).id] = <<>>
        /\ \E u \in Users : carts[u] # <<>>

PreconditionTexts ==
    {ErrNotLoggedIn.text, ErrTypeMissing.text, ErrCartEmpty.text, NotAvailableText}

\* C11: the step in which a call fails on one of its four preconditions
\* changes neither the catalogue stock nor any cart nor the shipment,
\* payment and order stores; and a call that failed so has written to no
\* store and has no stock update in flight.
C11_PreconditionFailureFrame ==
    [][\A c \in Calls : (pc'[c] = "failed" /\ err'[c].text \in PreconditionTexts) =>
          /\ wrote'[c] = {}
          /\ pending'[c] = {}
          /\ Throws(c) => UNCHANGED <<carts, stock, shipments, payments, orders>>]_vars

\* A call failed the stock check on its second line only; the catalogue is
\* the snapshot it read, its user's cart is the cart it read, and no store
\* holds a record.
C11_Witness ==
    \E c \in Calls :
        /\ Failed(c) /\ err[c].text = NotAvailableText
        /\ Offending(The(cart[c]), The(catalogue[c])) = {"B"}
        /\ Len(The(cart[c])) = 2
        /\ stock = The(catalogue[c])
        /\ carts[The(user[c]).id] = The(cart[c])
        /\ shipments = <<>> /\ payments = <<>> /\ orders = <<>>

\* C12: every record of the order store is the record one call created: it
\* has status "Pending" and cancellation false, and its paymentId and
\* shipmentId are the ids of the payment and the shipment that call stored.
C12_OrderRecord ==
    /\ \A c \in Calls : \A o \in orderjson[c] :
          /\ o.status = "Pending" /\ o.cancellation = FALSE
          /\ o.paymentId = The(storedPayment[c]).id
          /\ o.shipmentId = The(storedShipment[c]).id
          /\ The(storedPayment[c]).id # 0 /\ The(storedShipment[c]).id # 0
    /\ \A k \in DOMAIN orders : \E c \in Calls : orderjson[c] = Some(orders[k])

\* A call created its order record with a payment id that is not its
\* shipment id (the other call stored a shipment and no payment).
C12_Witness ==
    \E c \in Calls :
        /\ orderjson[c] # None
        /\ Holds(orders, The(orderjson[c]))
        /\ The(orderjson[c]).paymentId # The(orderjson[c]).shipmentId

\* The lines of call c whose stock update was applied / was rejected.
Applied(c) ==
    {i \in DOMAIN The(order[c]).items :
        Write("stock", The(order[c]).items[i].product.id) \in wrote[c]}

RejectedUpdates(c) == (DOMAIN The(order[c]).items \ pending[c]) \ Applied(c)

\* C13: while a call awaits its stock updates, the update of every line
\* item is in flight or applied (they are issued together, one per line, and
\* answer in any order); a call clears the cart (or is about to) only when every update of its
\* lines was applied; and a call of which an update was rejected has failed
\* and has not cleared the cart, whatever its other updates did.
C13_AllUpdatesBeforeCartClear ==
    \A c \in Calls :
        /\ pending[c] # {} => createdOrder[c] # None
        /\ pc[c] = "updateProductQuantity"
             => pending[c] # {} /\ RejectedUpdates(c) = {}
        /\ (pc[c] \in {"emptyCart", "done"} \/ Write("cart", "-") \in wrote[c])
             => /\ pending[c] = {}
                /\ Applied(c) = DOMAIN The(order[c]).items
        /\ (createdOrder[c] # None /\ RejectedUpdates(c) # {})
             => /\ Failed(c) /\ err[c] = ErrStore
                /\ Write("cart", "-") \notin wrote[c]

\* The update of the first line of a call was rejected, so the call failed;
\* the update of its second line was applied; the cart is as the call read
\* it.
C13_Witness ==
    \E c \in Calls :
        /\ createdOrder[c] # None
        /\ RejectedUpdates(c) = {1} /\ Applied(c) = {2}
        /\ Failed(c)
        /\ carts[The(user[c]).id] = The(cart[c])

\* The products of the lines of the record a call created.
RecordProducts(c) ==
    {The(orderjson[c]).items[i].productId : i \in DOMAIN The(orderjson[c]).items}

\* C17: the step that ends a hydration gives the call its Order (with every
\* line of the record, each with its product) only if every product of the
\* record is in the product store; otherwise it gives no Order and the call
\* fails, with "Product not found" naming a missing product of the record
\* unless a lookup was rejected.  A call that failed so in checkout has its
\* order record in the order store and has made no stock update and no
\* cart clear, and none is in flight.
C17_Hydration ==
    [][\A c \in Calls :
          /\ (pc[c] = "parseOrderJSON" /\ pc'[c] # "parseOrderJSON") =>
                IF RecordProducts(c) \subseteq products
                THEN \/ /\ createdOrder'[c] # None
                        /\ Len(The(createdOrder'[c]).items) = Len(The(orderjson[c]).items)
                        /\ \A i \in DOMAIN The(orderjson[c]).items :
                              The(createdOrder'[c]).items[i].product.id
                                 = The(orderjson[c]).items[i].productId
                     \/ /\ createdOrder'[c] = None
                        /\ pc'[c] = "failed" /\ err'[c] = ErrStore
                ELSE /\ createdOrder'[c] = None
                     /\ pc'[c] = "failed"
                     /\ \/ err'[c] = ErrStore
                        \/ \E p \in RecordProducts(c) \ products :
                              err'[c] = ErrProductNotFound(p)
          /\ (pc'[c] = "failed" /\ err'[c].text = "Product not found") =>
                /\ createdOrder'[c] = None
                /\ \A o \in orderjson'[c] : Holds(orders', o)
                /\ orderjson'[c] # None
                /\ pending'[c] = {}
                /\ \A w \in wrote'[c] : w.store \notin {"stock", "cart"}]_vars

\* A call failed with "Product not found" for the second product of its
\* record; the record is in the order store, the catalogue is the snapshot
\* the call read and its user's cart is the cart it read.
C17_Witness ==
    \E c \in Calls :
        /\ Failed(c) /\ err[c] = ErrProductNotFound("B")
        /\ Len(The(orderjson[c]).items) = 2
        /\ Holds(orders, The(orderjson[c]))
        /\ createdOrder[c] = None
        /\ stock = The(catalogue[c])
        /\ carts[The(user[c]).id] = The(cart[c])

\* C18: the order record of a checkout that returned has the lines of the
\* cart the checkout read: as many, in the same sequence, each with the
\* product and the quantity of its cart line; so at least one.
C18_OrderLinesAreCartLines ==
    \A c \in Calls : Done(c) =>
        LET record == orders[The(orderjson[c]).id]
            items == The(cart[c])
        IN /\ Len(record.items) = Len(items)
           /\ Len(record.items) > 0
           /\ \A i \in DOMAIN items :
                 /\ record.items[i].productId = items[i].product.id
                 /\ record.items[i].quantity = items[i].quantity

\* A checkout of a cart of two lines of different quantities has returned.
C18_Witness ==
    \E c \in Calls :
        /\ Done(c)
        /\ Len(The(cart[c])) = 2
        /\ The(cart[c])[1].quantity # The(cart[c])[2].quantity
        /\ Len(orders[The(orderjson[c]).id].items) = 2

\* C19: the catalogue holds no negative quantity of any product.
C19_StockNonNegative == \A p \in Products : stock[p] >= 0

\* Two checkouts that read the same snapshot have both returned and have
\* together ordered more of a product than the snapshot held; the catalogue
\* holds none of it, not less.
C19_Witness ==
    \E c \in Calls, d \in Calls, p \in Products :
        /\ c # d /\ Done(c) /\ Done(d)
        /\ catalogue[c] = catalogue[d]
        /\ Ordered(c, p) + Ordered(d, p) > The(catalogue[c])[p]
        /\ Ordered(c, p) = The(catalogue[c])[p]
        /\ Ordered(d, p) = The(catalogue[d])[p]
        /\ stock[p] = 0

\* C20: every order record has a paymentId and a shipmentId that are not
\* null and are ids of records of the payment store and the shipment store;
\* no two order records have the same paymentId or the same shipmentId; and
\* there are at most as many orders as payments, and at most as many
\* payments as shipments.
C20_ReferentialIntegrity ==
    /\ \A k \in DOMAIN orders :
          /\ orders[k].paymentId # 0 /\ orders[k].paymentId \in DOMAIN payments
          /\ payments[orders[k].paymentId].id = orders[k].paymentId
          /\ orders[k].shipmentId # 0 /\ orders[k].shipmentId \in DOMAIN shipments
          /\ shipments[orders[k].shipmentId].id = orders[k].shipmentId
    /\ \A k \in DOMAIN orders : \A l \in DOMAIN orders :
          k # l => /\ orders[k].paymentId # orders[l].paymentId
                   /\ orders[k].shipmentId # orders[l].shipmentId
    /\ Len(orders) <= Len(payments)
    /\ Len(payments) <= Len(shipments)

\* Two orders are persisted, each with its own payment and shipment.
C20_Witness ==
    /\ Len(orders) = 2
    /\ orders[1].paymentId # orders[2].paymentId
    /\ orders[1].shipmentId # orders[2].shipmentId
    /\ Len(payments) = 2 /\ Len(shipments) = 2

\* The call leaves the given position in this step.
ReceiptStepFrom(label) == receiptPc = label /\ receiptPc' # label

\* C14: generateReceipt called with an order that has no payment, or no
\* shipment, or no line throws "Order is not valid" at once, and a call
\* that threw it has produced no receipt.
C14_InvalidOrder ==
    [][/\ (ReceiptStepFrom("idle") /\ (\/ receiptOrder.payment = None
                                       \/ receiptOrder.shipment = None
                                       \/ receiptOrder.items = <<>>))
           => /\ receiptPc' = "failed"
              /\ receiptErr' = ErrInvalidOrder
       /\ receiptErr' = ErrInvalidOrder => receipt' = None]_vars

\* The call threw "Order is not valid" for an order with lines and a
\* shipment but no payment (the order has got one since).
C14_Witness ==
    /\ receiptPc = "failed" /\ receiptErr = ErrInvalidOrder
    /\ receipt = None
    /\ Len(receiptOrder.items) = 2
    /\ receiptOrder.shipment # None
    /\ receiptOrder.payment # None

C16_ReceiptPrices ==
    [][(receipt = None /\ receipt' # None) =>
          LET r == The(receipt')
          IN /\ r.total = getTotalPrice(receiptOrder)
             /\ Len(r.items) = Len(receiptOrder.items)
             /\ \A i \in DOMAIN receiptOrder.items :
                   /\ r.items[i].product.id = receiptOrder.items[i].product.id
                   /\ r.items[i].quantity = receiptOrder.items[i].quantity
                   /\ r.items[i].price = receiptOrder.items[i].product.price
                                           * receiptOrder.items[i].quantity]_vars

\* A receipt of two lines, the first of more than one piece of a product
\* whose price had changed before the receipt was made; the total is the
\* sum of the two line prices.
C16_Witness ==
    \E r \in receipt :
        /\ Len(r.items) = 2
        /\ r.items[1].quantity > 1
        /\ r.items[1].product.price # Price(r.items[1].product.id)
        /\ r.items[1].price = r.items[1].product.price * r.items[1].quantity
        /\ r.total = r.items[1].price + r.items[2].price

====
